---- MODULE Spec2Model ----
(***************************************************************************)
(* Model of the feature extraction and build-plate placement code of the   *)
(* slicer profile generator (feature_extractor.py, profile_generator.py),  *)
(* of the project-settings merge and the 3MF archive assembly              *)
(* (profile_generator.py), of the AI response handling (gemini_agent.py),  *)
(* of the case store (knowledge_base.py, ai_agent.py) and of overlapping   *)
(* calls of generate_profile that share one output directory.              *)
(*                                                                         *)
(* Each part of the program has its own group of variables and its own     *)
(* specification (Spec, SpecSettings, ...); the idle groups keep the       *)
(* values given by the ...Idle predicates.                                 *)
(*                                                                         *)
(* Python floats are modelled as exact rationals [k, n, d] (n/d in lowest  *)
(* terms, d > 0) extended with the IEEE special values the code can        *)
(* produce: k = "ninf", "pinf", "nan".                                     *)
(***************************************************************************)
EXTENDS Integers, Sequences, FiniteSets, TLC

VARIABLES mesh, build_plate_size, overhang_threshold,
          model_xml, plate_transform, overhangs,
          defaults, profile, material, project_settings,
          slicer_type, model_path, profile_data, pil_available,
          pc, part_index, temp_dir, output_path, three_mf_path,
          written, result,
          features, response, analysis,
          model_hash,
          now, cases_file, collection, case_ids,
          results, all_cases, similar_cases, prompt_cases,
          calls, fs

geometryVars == <<mesh, build_plate_size, overhang_threshold,
                  model_xml, plate_transform, overhangs>>

settingsVars == <<defaults, profile, material, project_settings>>

archiveVars == <<slicer_type, model_path, profile_data, pil_available,
                 pc, part_index, temp_dir, output_path, three_mf_path,
                 written, result>>

agentVars == <<features, response, analysis>>

storeVars == <<now, cases_file, collection, case_ids,
               results, all_cases, similar_cases, prompt_cases>>

exportVars == <<calls, fs>>

vars == <<geometryVars, settingsVars, archiveVars, agentVars, model_hash,
          storeVars, exportVars>>

----------------------------------------------------------------------------
(* Float arithmetic *)

Abs(x) == IF x < 0 THEN -x ELSE x

RECURSIVE GCD(_, _)
GCD(a, b) == IF b = 0 THEN a ELSE GCD(b, a % b)

Sign(x) == IF x < 0 THEN -1 ELSE IF x > 0 THEN 1 ELSE 0

\* the finite float n/d, d # 0, in lowest terms; the operations below divide
\* out common factors first so that intermediate products stay small
Rat(n, d) ==
    LET g == GCD(Abs(n), Abs(d))
        s == Sign(d)
    IN  [k |-> "fin", n |-> (s * n) \div g, d |-> (s * d) \div g]

Fl(i) == [k |-> "fin", n |-> i, d |-> 1]
NegInf == [k |-> "ninf", n |-> 0, d |-> 1]
PosInf == [k |-> "pinf", n |-> 0, d |-> 1]
NaN == [k |-> "nan", n |-> 0, d |-> 1]

\* sign of a non-nan float
FSign(a) == IF a.k = "ninf" THEN -1 ELSE IF a.k = "pinf" THEN 1 ELSE Sign(a.n)

InfOf(s) == IF s < 0 THEN NegInf ELSE PosInf

\* a / b on numpy float64: division by zero gives an infinity or nan
\* (with a RuntimeWarning), it does not raise
FDiv(a, b) ==
    IF b = 0
    THEN IF a = 0 THEN NaN ELSE InfOf(Sign(a))
    ELSE Rat(a, b)

FMul(a, b) ==
    IF a.k = "nan" \/ b.k = "nan" THEN NaN
    ELSE IF a.k = "fin" /\ b.k = "fin"
         THEN LET g1 == GCD(Abs(a.n), b.d)
                  g2 == GCD(Abs(b.n), a.d)
              IN  Rat((a.n \div g1) * (b.n \div g2), (a.d \div g2) * (b.d \div g1))
    ELSE IF FSign(a) = 0 \/ FSign(b) = 0 THEN NaN
    ELSE InfOf(FSign(a) * FSign(b))

FAdd(a, b) ==
    IF a.k = "nan" \/ b.k = "nan" THEN NaN
    ELSE IF a.k = "fin" /\ b.k = "fin"
         THEN LET g == GCD(a.d, b.d)
              IN  Rat(a.n * (b.d \div g) + b.n * (a.d \div g), (a.d \div g) * b.d)
    ELSE IF a.k = "fin" THEN b
    ELSE IF b.k = "fin" THEN a
    ELSE IF a.k = b.k THEN a ELSE NaN

\* a <= b; every comparison with nan is false
FLe(a, b) ==
    IF a.k = "nan" \/ b.k = "nan" THEN FALSE
    ELSE IF a.k = "ninf" \/ b.k = "pinf" THEN TRUE
    ELSE IF a.k = "pinf" \/ b.k = "ninf" THEN FALSE
    ELSE LET g == GCD(a.d, b.d)
         IN  a.n * (b.d \div g) <= b.n * (a.d \div g)

FEq(a, b) == FLe(a, b) /\ FLe(b, a)

FLt(a, b) == FLe(a, b) /\ ~FLe(b, a)

FGt(a, b) == FLt(b, a)

\* n / d rounded to the nearest integer, ties to even (d > 0)
RoundDiv(n, d) ==
    LET q == n \div d
        r == n % d
    IN  IF 2 * r < d THEN q
        ELSE IF 2 * r > d THEN q + 1
        ELSE IF q % 2 = 0 THEN q ELSE q + 1

----------------------------------------------------------------------------
(* Inputs *)

\* polar angle (degrees from +Z) of a face normal: (0,0,1) is 0, (0,0,-1) is 180
NormalUp == 0
NormalDown == 180
NormalPolars == {NormalUp, 115, 130, NormalDown}

MaxUpFaces == 2
MaxSteepFaces == 2
MaxShallowFaces == 8
MaxDownFaces == 42

\* face normals of a mesh, as the number of faces per normal direction
FaceNormalSets ==
    { [p \in NormalPolars |->
         IF p = NormalUp THEN u ELSE IF p = 115 THEN s
         ELSE IF p = 130 THEN h ELSE w] :
      u \in 0..MaxUpFaces, s \in 0..MaxSteepFaces,
      h \in 0..MaxShallowFaces, w \in 0..MaxDownFaces }

CubeNormals == [p \in NormalPolars |-> IF p \in {NormalUp, NormalDown} THEN 2 ELSE 0]

Origins == {-5, 0}
XYExtents == {0, 1, 10, 300, 330}
ZExtents == {0, 10, 300}

BoundsSet ==
    { [min |-> <<x, y, z>>, max |-> <<x + w, y + d, z + h>>] :
      x \in Origins, y \in Origins, z \in Origins,
      w \in XYExtents, d \in XYExtents, h \in ZExtents }

CubeBounds == [min |-> <<0, 0, 0>>, max |-> <<10, 10, 10>>]

PlateSizes == {4, 10, 220, 256}
DefaultPlate == 220
DefaultThreshold == 45
Thresholds == {DefaultThreshold, 70}

\* the two placement scenarios: the 10mm cube and a 300mm wide slab on the
\* default plate
ScenarioInputs ==
    { <<[bounds |-> b, face_normals |-> CubeNormals], DefaultPlate, DefaultThreshold>> :
      b \in {CubeBounds, [min |-> <<0, 0, 0>>, max |-> <<300, 10, 10>>]} }

\* the cube on plates no larger than the two margins
SmallPlateInputs ==
    { <<[bounds |-> CubeBounds, face_normals |-> CubeNormals], p, DefaultThreshold>> :
      p \in {q \in PlateSizes : q <= 10} }

PlacementInputs ==
    { <<[bounds |-> b, face_normals |-> CubeNormals], p, DefaultThreshold>> :
      b \in BoundsSet, p \in PlateSizes }

None == [status |-> "none"]

Range(s) == {s[i] : i \in DOMAIN s}

\* a mesh without faces references no vertex and has no bounds (bounds is None)
OverhangInputs ==
    { <<[bounds |-> IF \A p \in NormalPolars : f[p] = 0 THEN None ELSE CubeBounds,
         face_normals |-> f], DefaultPlate, t>> :
      f \in FaceNormalSets, t \in Thresholds }

GeometryIdle ==
    /\ mesh = None
    /\ build_plate_size = 0
    /\ overhang_threshold = 0
    /\ model_xml = None
    /\ plate_transform = None
    /\ overhangs = None

SettingsIdle ==
    /\ defaults = << >>
    /\ profile = << >>
    /\ material = ""
    /\ project_settings = None

ArchiveIdle ==
    /\ slicer_type = ""
    /\ model_path = ""
    /\ profile_data = ""
    /\ pil_available = FALSE
    /\ pc = ""
    /\ part_index = 0
    /\ temp_dir = {}
    /\ output_path = None
    /\ three_mf_path = None
    /\ written = {}
    /\ result = None

AgentIdle ==
    /\ features = None
    /\ response = None
    /\ analysis = None
    /\ model_hash = None

StoreIdle ==
    /\ now = 0
    /\ cases_file = << >>
    /\ collection = {}
    /\ case_ids = << >>
    /\ results = None
    /\ all_cases = None
    /\ similar_cases = None
    /\ prompt_cases = None

ExportIdle ==
    /\ calls = << >>
    /\ fs = << >>

\* one request: a loaded mesh, the build plate and the extractor's threshold
InitWith(inputs) ==
    /\ \E i \in inputs :
         /\ mesh = i[1]
         /\ build_plate_size = i[2]
         /\ overhang_threshold = i[3]
    /\ model_xml = None
    /\ plate_transform = None
    /\ overhangs = None
    /\ SettingsIdle
    /\ ArchiveIdle
    /\ AgentIdle
    /\ StoreIdle
    /\ ExportIdle

Init ==
    \/ InitWith(ScenarioInputs)
    \/ InitWith(SmallPlateInputs)
    \/ InitWith(PlacementInputs)
    \/ InitWith(OverhangInputs)

----------------------------------------------------------------------------
(* Build-plate placement: profile_generator.py *)

FNeg(a) ==
    IF a.k = "fin" THEN [a EXCEPT !.n = -a.n]
    ELSE IF a.k = "ninf" THEN PosInf
    ELSE IF a.k = "pinf" THEN NegInf ELSE NaN

FSub(a, b) == FAdd(a, FNeg(b))

\* nan-propagating minimum and maximum (numpy min / max)
FMin(a, b) == IF a.k = "nan" \/ b.k = "nan" THEN NaN ELSE IF FLe(a, b) THEN a ELSE b
FMax(a, b) == IF a.k = "nan" \/ b.k = "nan" THEN NaN ELSE IF FLe(a, b) THEN b ELSE a

Width(bounds) == bounds.max[1] - bounds.min[1]
Depth(bounds) == bounds.max[2] - bounds.min[2]
Height(bounds) == bounds.max[3] - bounds.min[3]

Max2(a, b) == IF a >= b THEN a ELSE b

\* a plausible slip: the tallest axis also decides the scale
MaxDimensionWithHeight(bounds) == Max2(Max2(Width(bounds), Depth(bounds)), Height(bounds))

\* max_dimension = max(width, depth)
MaxDimension(bounds) == Max2(Width(bounds), Depth(bounds))

\* 5mm margin on each side
PlateMargins == 10
SafeBuildSize(plate) == plate - PlateMargins

\* a plausible slip: the ratio inverted, enlarging the model
ScaleFactorInverted(max_dimension, safe_build_size) ==
    IF max_dimension > safe_build_size
    THEN FDiv(max_dimension, safe_build_size)
    ELSE Fl(1)

\* scale = 1.0; if max_dimension > safe_build_size: scale = safe_build_size / max_dimension
ScaleFactor(max_dimension, safe_build_size) ==
    IF max_dimension > safe_build_size
    THEN FDiv(safe_build_size, max_dimension)
    ELSE Fl(1)

ScaleDecimals == 1000000

\* the number denoted by scale_str: "1" if scale == 1.0, else scale printed
\* with six decimals (trailing zeros stripped); inf and nan print as themselves
ScaleStr(scale) ==
    IF scale.k # "fin" THEN scale
    ELSE Rat(RoundDiv(scale.n * ScaleDecimals, scale.d), ScaleDecimals)

\* the stored vertex coordinates: v - (center_x, center_y, center_z)
Normalize(v, bounds) ==
    <<FSub(Fl(v[1]), Rat(bounds.min[1] + bounds.max[1], 2)),
      FSub(Fl(v[2]), Rat(bounds.min[2] + bounds.max[2], 2)),
      FSub(Fl(v[3]), Fl(bounds.min[3]))>>

\* offset_z = (bounds[1][2] - bounds[0][2]) / 2 * scale
ModelOffsetZ(bounds, scale) == FMul(Rat(Height(bounds), 2), scale)

\* _generate_3mf_model_xml: the stored coordinates of the two corners of the
\* bounding box (every stored vertex lies between them), the scale and the
\* transform written on the build item
\* the mutation: missing bounds read as an empty box at the origin
generate_3mf_model_xml_unchecked(m, plate) ==
    LET bounds == IF m.bounds = None
                  THEN [min |-> <<0, 0, 0>>, max |-> <<0, 0, 0>>] ELSE m.bounds
        scale == ScaleFactor(MaxDimension(bounds), SafeBuildSize(plate))
    IN  [status |-> "ok",
         norm_min |-> Normalize(bounds.min, bounds),
         norm_max |-> Normalize(bounds.max, bounds),
         scale |-> scale,
         transform |-> [scale |-> ScaleStr(scale),
                        offset |-> <<Rat(plate, 2), Rat(plate, 2),
                                     ModelOffsetZ(bounds, scale)>>]]

\* bounds[0][0] on bounds = None raises TypeError
generate_3mf_model_xml(m, plate) ==
    LET bounds == m.bounds
        scale == ScaleFactor(MaxDimension(bounds), SafeBuildSize(plate))
    IN  IF bounds = None THEN [status |-> "raised"]
        ELSE [status |-> "ok",
              norm_min |-> Normalize(bounds.min, bounds),
              norm_max |-> Normalize(bounds.max, bounds),
              scale |-> scale,
              transform |-> [scale |-> ScaleStr(scale),
                             offset |-> <<Rat(plate, 2), Rat(plate, 2),
                                          ModelOffsetZ(bounds, scale)>>]]

\* the 3MF transform "s 0 0 0 s 0 0 0 s tx ty tz" applied to a point
ApplyTransform(t, v) ==
    [i \in 1..3 |-> FAdd(FMul(t.scale, v[i]), t.offset[i])]

\* _calculate_build_plate_transform: (scale_factor, offset_x, offset_y, offset_z)
calculate_build_plate_transform(m, plate) ==
    LET bounds == m.bounds
        scale_factor == ScaleFactor(MaxDimension(bounds), SafeBuildSize(plate))
        scaled_width == FMul(Fl(Width(bounds)), scale_factor)
        scaled_depth == FMul(Fl(Depth(bounds)), scale_factor)
        half == Rat(plate, 2)
    IN  IF bounds = None THEN [status |-> "raised"]
        ELSE [status |-> "ok",
              scale_factor |-> scale_factor,
              offset_x |-> FSub(FSub(half, FMul(scaled_width, Rat(1, 2))),
                                FMul(Fl(bounds.min[1]), scale_factor)),
              offset_y |-> FSub(FSub(half, FMul(scaled_depth, Rat(1, 2))),
                                FMul(Fl(bounds.min[2]), scale_factor)),
              offset_z |-> FNeg(FMul(Fl(bounds.min[3]), scale_factor))]

Generate3mfModelXml ==
    /\ model_xml.status = "none"
    /\ model_xml' = generate_3mf_model_xml(mesh, build_plate_size)
    /\ UNCHANGED <<mesh, build_plate_size, overhang_threshold, plate_transform, overhangs>>
    /\ UNCHANGED <<settingsVars, archiveVars, agentVars, model_hash,
                 storeVars, exportVars>>

CalculateBuildPlateTransform ==
    /\ plate_transform.status = "none"
    /\ plate_transform' = calculate_build_plate_transform(mesh, build_plate_size)
    /\ UNCHANGED <<mesh, build_plate_size, overhang_threshold, model_xml, overhangs>>
    /\ UNCHANGED <<settingsVars, archiveVars, agentVars, model_hash,
                 storeVars, exportVars>>

----------------------------------------------------------------------------
(* Overhang analysis: feature_extractor.py *)

\* angles_deg = degrees(arccos(clip(dot(normal, (0, 0, -1)), -1, 1))): a unit
\* normal at polar angle p from +Z has dot product -cos(p) = cos(180 - p)
AngleDeg(polar) == 180 - polar

\* a plausible slip: the comparison reversed
OverhangMaskReversed(angle, threshold) == angle < threshold

\* angles_deg > threshold
OverhangMask(angle, threshold) == angle > threshold

RECURSIVE SumFaces(_, _, _)
SumFaces(normals, polars, threshold) ==
    IF polars = {} THEN 0
    ELSE LET p == CHOOSE q \in polars : TRUE
         IN  (IF OverhangMask(AngleDeg(p), threshold) THEN normals[p] ELSE 0)
             + SumFaces(normals, polars \ {p}, threshold)

\* np.sum(angles_deg > threshold)
MaskedFaces(normals, threshold) == SumFaces(normals, DOMAIN normals, threshold)

RECURSIVE CountAll(_, _)
CountAll(normals, polars) ==
    IF polars = {} THEN 0
    ELSE LET p == CHOOSE q \in polars : TRUE
         IN  normals[p] + CountAll(normals, polars \ {p})

\* total_faces = len(mesh.faces)
TotalFaces(normals) == CountAll(normals, DOMAIN normals)

\* (faces / total_faces * 100) if total_faces > 0 else 0
Percentage(faces, total_faces) ==
    IF total_faces > 0 THEN Rat(faces * 100, total_faces) ELSE Fl(0)

SevereThreshold == 60
ExtremeThreshold == 75
HasOverhangsPct == 5
NeedsSupportsPct == 10
TreeSeverePct == 5
TreeOverhangPct == 15
TreeExtremePct == 2
TreeHighOverhangPct == 20

\* overhang_percentage > 10
NeedsSupports(overhang_percentage) == FGt(overhang_percentage, Fl(NeedsSupportsPct))

\* a plausible slip: the boundary values themselves recommend tree supports
NeedsTreeSupportInclusive(overhang_percentage, severe_percentage, extreme_percentage) ==
    \/ FLe(Fl(TreeSeverePct), severe_percentage)
    \/ /\ FLe(Fl(TreeOverhangPct), overhang_percentage)
       /\ FLe(Fl(TreeExtremePct), extreme_percentage)
    \/ FLe(Fl(TreeHighOverhangPct), overhang_percentage)

\* needs_tree_support
NeedsTreeSupport(overhang_percentage, severe_percentage, extreme_percentage) ==
    \/ FGt(severe_percentage, Fl(TreeSeverePct))
    \/ /\ FGt(overhang_percentage, Fl(TreeOverhangPct))
       /\ FGt(extreme_percentage, Fl(TreeExtremePct))
    \/ FGt(overhang_percentage, Fl(TreeHighOverhangPct))

\* np.max(angles_deg)
MaxAngle(normals) ==
    LET present == {AngleDeg(p) : p \in {q \in DOMAIN normals : normals[q] > 0}}
    IN  CHOOSE a \in present : \A b \in present : b <= a

\* _detect_overhangs; on a mesh without faces np.max of the empty angle array
\* raises ValueError while the result is built
detect_overhangs(m, threshold) ==
    LET normals == m.face_normals
        total_faces == TotalFaces(normals)
        overhang_faces == MaskedFaces(normals, threshold)
        overhang_percentage == Percentage(overhang_faces, total_faces)
        severe_percentage ==
            Percentage(MaskedFaces(normals, SevereThreshold), total_faces)
        extreme_percentage ==
            Percentage(MaskedFaces(normals, ExtremeThreshold), total_faces)
        needs_tree_support ==
            NeedsTreeSupport(overhang_percentage, severe_percentage, extreme_percentage)
    IN  IF total_faces = 0
        THEN [status |-> "raised"]
        ELSE [status |-> "ok",
              has_overhangs |-> FGt(overhang_percentage, Fl(HasOverhangsPct)),
              overhang_percentage |-> overhang_percentage,
              severe_overhang_percentage |-> severe_percentage,
              extreme_overhang_percentage |-> extreme_percentage,
              overhang_face_count |-> overhang_faces,
              needs_supports |-> NeedsSupports(overhang_percentage),
              recommend_tree_support |-> needs_tree_support,
              max_overhang_angle |-> MaxAngle(normals),
              support_complexity |->
                  IF needs_tree_support THEN "high"
                  ELSE IF FGt(overhang_percentage, Fl(NeedsSupportsPct)) THEN "medium"
                  ELSE "low"]

DetectOverhangs ==
    /\ overhangs.status = "none"
    /\ overhangs' = detect_overhangs(mesh, overhang_threshold)
    /\ UNCHANGED <<mesh, build_plate_size, overhang_threshold, model_xml, plate_transform>>
    /\ UNCHANGED <<settingsVars, archiveVars, agentVars, model_hash,
                 storeVars, exportVars>>

----------------------------------------------------------------------------

Next ==
    \/ Generate3mfModelXml
    \/ CalculateBuildPlateTransform
    \/ DetectOverhangs

Spec == Init /\ [][Next]_vars

----------------------------------------------------------------------------
(* Placement properties *)

\* images of the stored bounding-box corners under the emitted transform
ImageMin == ApplyTransform(model_xml.transform, model_xml.norm_min)
ImageMax == ApplyTransform(model_xml.transform, model_xml.norm_max)
BoxLo(i) == FMin(ImageMin[i], ImageMax[i])
BoxHi(i) == FMax(ImageMin[i], ImageMax[i])
BoxCenter(i) == FMul(FAdd(BoxLo(i), BoxHi(i)), Rat(1, 2))

IsCube10 == Width(mesh.bounds) = 10 /\ Depth(mesh.bounds) = 10 /\ Height(mesh.bounds) = 10

\* C1: after _generate_3mf_model_xml, the emitted transform applied to the
\* stored centered coordinates gives a bounding box whose minimum Z is 0, and
\* for the 10x10x10 cube on a 220 plate the Z offset is 0.
C1_MinZIsZero ==
    model_xml.status = "ok" =>
        /\ FEq(BoxLo(3), Fl(0))
        /\ (IsCube10 /\ build_plate_size = 220
              => FEq(model_xml.transform.offset[3], Fl(0)))

\* C4: after _generate_3mf_model_xml, the X and Y ranges of the transformed
\* bounding box lie within [0, plateSize].
C4_WithinPlate ==
    model_xml.status = "ok" =>
        \A i \in {1, 2} :
            /\ FLe(Fl(0), BoxLo(i))
            /\ FLe(BoxHi(i), Fl(build_plate_size))

\* C5: after _generate_3mf_model_xml, the X/Y center of the transformed
\* bounding box is (plateSize/2, plateSize/2).
C5_CenteredOnPlate ==
    model_xml.status = "ok" =>
        \A i \in {1, 2} : FEq(BoxCenter(i), Rat(build_plate_size, 2))

\* C6: for a mesh with a non-empty X/Y extent the scale factor of the solved
\* transform is strictly positive, for every plate size.
C6_ScalePositive ==
    /\ (model_xml.status = "ok" /\ (Width(mesh.bounds) > 0 \/ Depth(mesh.bounds) > 0)
          => FGt(model_xml.scale, Fl(0)))
    /\ (plate_transform.status = "ok" /\ (Width(mesh.bounds) > 0 \/ Depth(mesh.bounds) > 0)
          => FGt(plate_transform.scale_factor, Fl(0)))

\* C7: the scale factor is never greater than 1, in the computed scale, in
\* the scale written into the transform and in the scale returned by
\* _calculate_build_plate_transform.
C7_ScaleAtMostOne ==
    /\ (model_xml.status = "ok"
          => /\ FLe(model_xml.scale, Fl(1))
             /\ FLe(model_xml.transform.scale, Fl(1)))
    /\ (plate_transform.status = "ok" => FLe(plate_transform.scale_factor, Fl(1)))

\* a model that had to be shrunk: 0 < s < 1
C7_Witness ==
    /\ model_xml.status = "ok"
    /\ plate_transform.status = "ok"
    /\ FLt(Fl(0), model_xml.scale)
    /\ FLt(model_xml.scale, Fl(1))
    /\ FLt(model_xml.transform.scale, Fl(1))

\* the bounds of the mesh with its Z range replaced
WithZRange(bounds, z, h) ==
    [min |-> <<bounds.min[1], bounds.min[2], z>>,
     max |-> <<bounds.max[1], bounds.max[2], z + h>>]

\* C8: with maxDim = max(X extent, Y extent) and safeSize = plateSize - 10,
\* the scale is safeSize/maxDim when maxDim > safeSize and 1 otherwise, the
\* same for every Z range of the mesh, and a 300mm extent on a 220mm plate
\* gives safeSize 210 and s = 0.7.
C8_ScaleRule ==
    model_xml.status = "ok" =>
        LET w == mesh.bounds.max[1] - mesh.bounds.min[1]
            d == mesh.bounds.max[2] - mesh.bounds.min[2]
            maxDim == IF w > d THEN w ELSE d
            safeSize == build_plate_size - 10
            s == model_xml.scale
        IN  /\ maxDim > safeSize /\ maxDim # 0
                => s.k = "fin" /\ s.n * maxDim = safeSize * s.d
            /\ maxDim > safeSize /\ maxDim = 0 => s.k = "ninf"
            /\ maxDim <= safeSize => s.k = "fin" /\ s.n = 1 /\ s.d = 1
            /\ \A z \in Origins, h \in ZExtents :
                 generate_3mf_model_xml(
                     [mesh EXCEPT !.bounds = WithZRange(mesh.bounds, z, h)],
                     build_plate_size).scale = s
            /\ maxDim = 300 /\ build_plate_size = 220
                => safeSize = 210 /\ s.n = 7 /\ s.d = 10

\* a 300mm X/Y extent on the 220mm plate, taller than it is wide
C8_Witness ==
    /\ model_xml.status = "ok"
    /\ build_plate_size = 220
    /\ Width(mesh.bounds) = 300
    /\ Depth(mesh.bounds) = 10
    /\ Height(mesh.bounds) = 300
    /\ model_xml.scale = Rat(7, 10)

----------------------------------------------------------------------------
(* Overhang properties *)

OnlyFaces(polar) ==
    /\ mesh.face_normals[polar] > 0
    /\ \A p \in DOMAIN mesh.face_normals : p # polar => mesh.face_normals[p] = 0

\* C2: a mesh made only of faces whose normal is (0,0,-1) is reported by
\* _detect_overhangs as 100% overhang, 100% severe and 100% extreme at the 45
\* degree threshold.
C2_DownwardFacesAreOverhangs ==
    overhangs.status = "ok" /\ overhang_threshold = 45 /\ OnlyFaces(NormalDown) =>
        /\ FEq(overhangs.overhang_percentage, Fl(100))
        /\ FEq(overhangs.severe_overhang_percentage, Fl(100))
        /\ FEq(overhangs.extreme_overhang_percentage, Fl(100))

\* C3: a mesh all of whose face normals are (0,0,1) is reported by
\* _detect_overhangs with overhang_percentage = 0 and needs_supports = false.
C3_UpwardFacesNeedNoSupport ==
    overhangs.status = "ok" /\ OnlyFaces(NormalUp) =>
        /\ FEq(overhangs.overhang_percentage, Fl(0))
        /\ overhangs.needs_supports = FALSE

\* C9 as stated: for every mesh and every configured overhang_threshold the
\* reported overhang_percentage >= severe_overhang_percentage >=
\* extreme_overhang_percentage.
C9_ReportedPercentagesOrdered ==
    overhangs.status = "ok" =>
        /\ FLe(overhangs.severe_overhang_percentage, overhangs.overhang_percentage)
        /\ FLe(overhangs.extreme_overhang_percentage, overhangs.severe_overhang_percentage)

ProbeThresholds == {0, 45, 50, 60, 65, 70, 75, 90, 180}

PercentageAt(t) ==
    Percentage(MaskedFaces(mesh.face_normals, t), TotalFaces(mesh.face_normals))

\* C9 amended: the percentage is monotone in the threshold (t1 < t2 gives
\* percentage at t1 >= percentage at t2), the reported percentage is the one
\* at the configured threshold, severe >= extreme for every mesh, and
\* overhang >= severe whenever the configured threshold is at most 60.
C9_MonotoneInThreshold ==
    overhangs.status = "ok" =>
        /\ \A t1, t2 \in ProbeThresholds :
             t1 < t2 => FLe(PercentageAt(t2), PercentageAt(t1))
        /\ FEq(overhangs.overhang_percentage, PercentageAt(overhang_threshold))
        /\ FLe(overhangs.extreme_overhang_percentage, overhangs.severe_overhang_percentage)
        /\ (overhang_threshold <= 60
              => FLe(overhangs.severe_overhang_percentage, overhangs.overhang_percentage))

\* faces in every band, so the three percentages differ
C9_Witness ==
    /\ overhangs.status = "ok"
    /\ overhang_threshold = 45
    /\ FLt(overhangs.extreme_overhang_percentage, overhangs.severe_overhang_percentage)
    /\ FLt(overhangs.severe_overhang_percentage, overhangs.overhang_percentage)
    /\ FLt(overhangs.overhang_percentage, Fl(100))

\* C10: needs_supports is true exactly when overhang % > 10, and
\* recommend_tree_support exactly when severe % > 5, or overhang % > 15 and
\* extreme % > 2, or overhang % > 20, all comparisons strict.
C10_SupportPolicy ==
    overhangs.status = "ok" =>
        LET o == overhangs.overhang_percentage
            s == overhangs.severe_overhang_percentage
            e == overhangs.extreme_overhang_percentage
        IN  /\ overhangs.needs_supports <=> (o.n > 10 * o.d)
            /\ overhangs.recommend_tree_support <=>
                 \/ s.n > 5 * s.d
                 \/ (o.n > 15 * o.d /\ e.n > 2 * e.d)
                 \/ o.n > 20 * o.d

\* overhang % exactly 20 and severe % exactly 5: supports are needed, tree
\* supports are not recommended
C10_Witness ==
    /\ overhangs.status = "ok"
    /\ overhangs.overhang_percentage = Fl(20)
    /\ overhangs.severe_overhang_percentage = Fl(5)
    /\ overhangs.needs_supports
    /\ ~overhangs.recommend_tree_support

\* the point to which (scale_factor, offset_x, offset_y, offset_z) takes v
PlateImage(v) ==
    <<FAdd(FMul(plate_transform.scale_factor, Fl(v[1])), plate_transform.offset_x),
      FAdd(FMul(plate_transform.scale_factor, Fl(v[2])), plate_transform.offset_y),
      FAdd(FMul(plate_transform.scale_factor, Fl(v[3])), plate_transform.offset_z)>>

\* C27: centering a vertex as _generate_3mf_model_xml does and applying the
\* transform it emits gives the same point as applying the result of
\* _calculate_build_plate_transform to the original vertex, on all three
\* axes (checked on the two corners of the bounding box).
C27_PlacementsAgree ==
    (model_xml.status = "ok" /\ plate_transform.status = "ok") =>
        \A v \in {mesh.bounds.min, mesh.bounds.max} :
            \A i \in 1..3 :
                FEq(ApplyTransform(model_xml.transform, Normalize(v, mesh.bounds))[i],
                    PlateImage(v)[i])

\* C28: with the default threshold, recommend_tree_support implies
\* needs_supports, and support_complexity is "low" only when needs_supports
\* is false.
C28_TreeImpliesSupports ==
    (overhangs.status = "ok" /\ overhang_threshold = DefaultThreshold) =>
        /\ overhangs.recommend_tree_support => overhangs.needs_supports
        /\ overhangs.support_complexity = "low" => ~overhangs.needs_supports

----------------------------------------------------------------------------
(* Project settings: _load_elegoo_defaults and                             *)
(* _generate_elegoo_project_settings.                                      *)
(*                                                                         *)
(* A Python value of the AI profile is a record [t, i, s]: t is its type,  *)
(* i the value of an int or bool, s the text of a str or the repr of a     *)
(* float.  A dict is a function from its keys.                             *)

PyInt(i) == [t |-> "int", i |-> i, s |-> ""]

PyFloat(repr) == [t |-> "float", i |-> 0, s |-> repr]

PyText(s) == [t |-> "str", i |-> 0, s |-> s]

PyBool(b) == [t |-> "bool", i |-> IF b THEN 1 ELSE 0, s |-> ""]

Absent == [t |-> "absent", i |-> 0, s |-> ""]

(* str(v) *)
PyStr(v) ==
    CASE v.t = "int" -> ToString(v.i)
      [] v.t = "bool" -> IF v.i = 1 THEN "True" ELSE "False"
      [] OTHER -> v.s

(* bool(v) *)
Truthy(v) ==
    CASE v.t = "int" -> v.i # 0
      [] v.t = "bool" -> v.i = 1
      [] v.t = "float" -> v.s \notin {"0.0", "-0.0"}
      [] OTHER -> v.s # ""

(* the value as json.dump writes it when no str() is applied *)
PyRaw(v) == IF v.t = "str" THEN v.s ELSE v

(* d.get(key, default) *)
Get(d, key, default) == IF key \in DOMAIN d THEN d[key] ELSE default

(* d.update(other), the mutation: entries already present win *)
UpdateKeepExisting(d, other) ==
    [k \in DOMAIN d \cup DOMAIN other |->
        IF k \in DOMAIN d THEN d[k] ELSE other[k]]

(* d.update(other) *)
Update(d, other) ==
    [k \in DOMAIN d \cup DOMAIN other |->
        IF k \in DOMAIN other THEN other[k] ELSE d[k]]

(* 'tree' in s.lower(), on the texts the model draws support_type from *)
ContainsTree(s) == s \in {"tree", "tree_auto", "Tree(auto)", "tree_hybrid"}

IsTree(p) ==
    \/ ("support_style" \in DOMAIN p /\ p["support_style"] = PyText("tree"))
    \/ ContainsTree(PyStr(Get(p, "support_type", PyText(""))))

SupportMaterial(p) == Truthy(Get(p, "support_material", PyBool(FALSE)))

DifferentSettingsToSystem ==
    "brim_type;enable_support;support_type;layer_height;wall_loops;sparse_infill_density;nozzle_temperature;hot_plate_temp"

ai_settings(p, mat) ==
    [layer_height |-> PyStr(Get(p, "layer_height", PyFloat("0.2"))),
     initial_layer_height |-> PyStr(Get(p, "first_layer_height", PyFloat("0.2"))),
     wall_loops |-> PyStr(Get(p, "perimeters", PyInt(3))),
     top_shell_layers |-> PyStr(Get(p, "top_solid_layers", PyInt(5))),
     bottom_shell_layers |-> PyStr(Get(p, "bottom_solid_layers", PyInt(5))),
     sparse_infill_density |-> PyStr(Get(p, "infill_percentage", PyInt(20))) \o "%",
     sparse_infill_pattern |-> PyRaw(Get(p, "infill_pattern", PyText("cubic"))),
     enable_support |-> IF SupportMaterial(p) THEN "1" ELSE "0",
     support_type |-> IF IsTree(p) THEN "tree(auto)" ELSE "normal(auto)",
     support_style |-> "default",
     support_threshold_angle |-> PyStr(Get(p, "support_angle_threshold", PyInt(45))),
     brim_type |-> "no_brim",
     default_speed |-> PyStr(Get(p, "print_speed", PyInt(60))),
     initial_layer_speed |-> PyStr(Get(p, "first_layer_speed", PyInt(20))),
     outer_wall_speed |-> PyStr(Get(p, "perimeter_speed", PyInt(45))),
     inner_wall_speed |-> PyStr(Get(p, "perimeter_speed", PyInt(45))),
     sparse_infill_speed |-> PyStr(Get(p, "infill_speed", PyInt(80))),
     travel_speed |-> PyStr(Get(p, "travel_speed", PyInt(150))),
     retraction_length |-> <<PyStr(Get(p, "retraction_length", PyFloat("0.8")))>>,
     retraction_speed |-> <<PyStr(Get(p, "retraction_speed", PyInt(35)))>>,
     nozzle_temperature |-> <<PyStr(Get(p, "temperature", PyInt(210)))>>,
     hot_plate_temp |-> <<PyStr(Get(p, "bed_temperature", PyInt(60)))>>,
     hot_plate_temp_initial_layer |-> <<PyStr(Get(p, "bed_temperature", PyInt(60)))>>,
     fan_max_speed |-> <<PyStr(Get(p, "cooling_fan_speed", PyInt(100)))>>,
     fan_min_speed |-> <<PyStr(Get(p, "first_layer_fan_speed", PyInt(0)))>>,
     filament_type |-> <<mat>>,
     filament_settings_id |-> <<mat \o " @ECC">>,
     different_settings_to_system |-> <<DifferentSettingsToSystem>>,
     resolution |-> "0.01",
     detect_thin_wall |-> "1"]

tree_settings(p) ==
    [tree_support_branch_angle |-> PyStr(Get(p, "tree_support_branch_angle", PyInt(45))),
     tree_support_branch_angle_organic |-> PyStr(Get(p, "tree_support_branch_angle", PyInt(45))),
     tree_support_branch_distance |-> "5",
     tree_support_branch_distance_organic |-> "5",
     tree_support_branch_diameter |-> "2",
     tree_support_branch_diameter_organic |-> "2",
     tree_support_wall_count |-> PyStr(Get(p, "tree_support_wall_count", PyInt(0))),
     tree_support_adaptive_layer_height |-> "1",
     tree_support_tip_diameter |-> "2",
     tree_support_top_rate |-> "30%"]

generate_elegoo_project_settings(settings, p, mat) ==
    LET ai == IF IsTree(p) /\ SupportMaterial(p)
              THEN Update(ai_settings(p, mat), tree_settings(p))
              ELSE ai_settings(p, mat)
    IN  [status |-> "ok", settings |-> Update(settings, ai)]

(* Inputs.  The baseline table is what _load_elegoo_defaults returns: the  *)
(* parsed template, or the empty dict when the template is missing or      *)
(* unreadable.  Each modelled key is absent or has the listed value.       *)
NoEntry == "<no entry>"

DefaultsOptions ==
    [layer_height : {NoEntry, "0.16"},
     wall_loops : {NoEntry, "2"},
     brim_type : {NoEntry, "auto_brim"},
     curr_bed_type : {NoEntry, "Textured PEI Plate"},
     tree_support_wall_count : {NoEntry, "1"}]

DefaultsOf(o) == [k \in {key \in DOMAIN o : o[key] # NoEntry} |-> o[k]]

DefaultsTables == {DefaultsOf(o) : o \in DefaultsOptions}

ProfileOptions ==
    [layer_height : {Absent, PyFloat("0.12")},
     perimeters : {Absent, PyInt(4)},
     temperature : {Absent, PyInt(215)},
     support_material : {Absent, PyBool(TRUE), PyBool(FALSE)},
     support_type : {Absent, PyText("tree_auto"), PyText("normal")},
     support_style : {Absent, PyText("tree"), PyText("default")},
     tree_support_wall_count : {Absent, PyInt(2)}]

ProfileOf(o) == [k \in {key \in DOMAIN o : o[key] # Absent} |-> o[k]]

Profiles == {ProfileOf(o) : o \in ProfileOptions}

Materials == {"PLA", "PETG"}

InitSettings ==
    /\ GeometryIdle
    /\ ArchiveIdle
    /\ AgentIdle
    /\ StoreIdle
    /\ ExportIdle
    /\ defaults \in DefaultsTables
    /\ profile \in Profiles
    /\ material \in Materials
    /\ project_settings = None

GenerateElegooProjectSettings ==
    /\ project_settings.status = "none"
    /\ project_settings' = generate_elegoo_project_settings(defaults, profile, material)
    /\ UNCHANGED <<defaults, profile, material>>
    /\ UNCHANGED <<geometryVars, archiveVars, agentVars, model_hash,
                 storeVars, exportVars>>

SpecSettings == InitSettings /\ [][GenerateElegooProjectSettings]_vars

----------------------------------------------------------------------------
(* Claims about the project settings *)

AiKeys == DOMAIN ai_settings(<< >>, "PLA")

TreeKeys == DOMAIN tree_settings(<< >>)

(* The profile keys from which _generate_elegoo_project_settings computes  *)
(* the settings key k; empty for the keys it writes as literals.           *)
SourceKeys(k) ==
    CASE k = "layer_height" -> {"layer_height"}
      [] k = "initial_layer_height" -> {"first_layer_height"}
      [] k = "wall_loops" -> {"perimeters"}
      [] k = "top_shell_layers" -> {"top_solid_layers"}
      [] k = "bottom_shell_layers" -> {"bottom_solid_layers"}
      [] k = "sparse_infill_density" -> {"infill_percentage"}
      [] k = "sparse_infill_pattern" -> {"infill_pattern"}
      [] k = "enable_support" -> {"support_material"}
      [] k = "support_type" -> {"support_style", "support_type"}
      [] k = "support_threshold_angle" -> {"support_angle_threshold"}
      [] k = "default_speed" -> {"print_speed"}
      [] k = "initial_layer_speed" -> {"first_layer_speed"}
      [] k \in {"outer_wall_speed", "inner_wall_speed"} -> {"perimeter_speed"}
      [] k = "sparse_infill_speed" -> {"infill_speed"}
      [] k = "travel_speed" -> {"travel_speed"}
      [] k = "retraction_length" -> {"retraction_length"}
      [] k = "retraction_speed" -> {"retraction_speed"}
      [] k = "nozzle_temperature" -> {"temperature"}
      [] k \in {"hot_plate_temp", "hot_plate_temp_initial_layer"} -> {"bed_temperature"}
      [] k = "fan_max_speed" -> {"cooling_fan_speed"}
      [] k = "fan_min_speed" -> {"first_layer_fan_speed"}
      [] k \in {"tree_support_branch_angle", "tree_support_branch_angle_organic"} ->
            {"tree_support_branch_angle"}
      [] k = "tree_support_wall_count" -> {"tree_support_wall_count"}
      [] OTHER -> {}

ProfileProvides(k) == SourceKeys(k) \cap DOMAIN profile # {}

SettingsDone == project_settings.status = "ok"

TreeKeysWritten == IsTree(profile) /\ SupportMaterial(profile)

DeclaredKeys ==
    <<"brim_type", "enable_support", "support_type", "layer_height", "wall_loops",
      "sparse_infill_density", "nozzle_temperature", "hot_plate_temp">>

JoinKeys(keys) ==
    LET J[i \in 1..Len(keys)] ==
            IF i = 1 THEN keys[1] ELSE J[i - 1] \o ";" \o keys[i]
    IN  J[Len(keys)]

(* C24: the list different_settings_to_system of the merged table names    *)
(* exactly the baseline keys whose merged value differs from the baseline  *)
(* value.                                                                  *)
C24_DeclaredKeysAreTheDifferences ==
    SettingsDone =>
        /\ project_settings.settings["different_settings_to_system"]
               = <<JoinKeys(DeclaredKeys)>>
        /\ \A k \in DOMAIN defaults :
               k \in Range(DeclaredKeys)
                   <=> project_settings.settings[k] # defaults[k]

----------------------------------------------------------------------------
(* Archive assembly: generate_profile and _generate_3mf_with_settings.     *)
(*                                                                         *)
(* temp_dir is the working directory temp_<base_filename> (the files in    *)
(* it, named relative to it), output_path the file <base_filename>.3mf     *)
(* (the entries the ZIP writer has added).  Every file-system call either  *)
(* completes or raises; pc is the position in the code.                    *)

ElegooParts ==
    <<"3D/3dmodel.model", "3D/Objects/Object_1_1.model",
      "3D/_rels/3dmodel.model.rels", "[Content_Types].xml", "_rels/.rels",
      "Metadata/project_settings.config", "Metadata/model_settings.config",
      "Metadata/plate_1.json", "Metadata/slice_info.config">>

StandardParts ==
    <<"3D/3dmodel.model", "[Content_Types].xml", "_rels/.rels",
      "Metadata/Slic3r_PE.json", "Metadata/Slic3r_PE_model.json",
      "Metadata/model_settings.json">>

Thumbnails ==
    <<"Metadata/plate_1_small.png", "Metadata/plate_1.png",
      "Metadata/plate_no_light_1.png", "Metadata/top_1.png",
      "Metadata/pick_1.png">>

(* the mutation: the elegoo_orca variant without its object part *)
PartsVariantsSwapped(slicer) ==
    IF slicer = "elegoo_orca"
    THEN <<"3D/_rels/3dmodel.model.rels">> \o StandardParts
    ELSE ElegooParts

Parts(slicer) == IF slicer = "elegoo_orca" THEN ElegooParts ELSE StandardParts

(* the parts whose content is computed from the profile with profile.get *)
ProfileParts == {"Metadata/project_settings.config", "Metadata/Slic3r_PE.json"}

(* Target attributes of the relationships a part declares *)
RelationshipTargets(part) ==
    CASE part = "_rels/.rels" -> {"/3D/3dmodel.model"}
      [] part = "3D/_rels/3dmodel.model.rels" -> {"/3D/Objects/Object_1_1.model"}
      [] OTHER -> {}

(* PartName attributes of the Override elements a part declares *)
OverrideParts(part) ==
    IF part = "[Content_Types].xml" THEN {"/3D/3dmodel.model"} ELSE {}

NoDir == [exists |-> FALSE, files |-> {}]

NoFile == [exists |-> FALSE, entries |-> {}, closed |-> FALSE]

(* what trimesh.load gives for the file: the 10mm cube, or a mesh without  *)
(* triangles (no referenced vertex, bounds None)                           *)
ArchiveMeshes ==
    {[bounds |-> CubeBounds, face_normals |-> CubeNormals],
     [bounds |-> None, face_normals |-> [p \in NormalPolars |-> 0]]}

InitArchive ==
    /\ mesh = None
    /\ build_plate_size = DefaultPlate
    /\ overhang_threshold = 0
    /\ model_xml = None
    /\ plate_transform = None
    /\ overhangs = None
    /\ SettingsIdle
    /\ AgentIdle
    /\ StoreIdle
    /\ ExportIdle
    /\ slicer_type \in {"elegoo_orca", "standard"}
    /\ model_path \in {"none", "missing", "present"}
    /\ profile_data \in {"dict", "null"}
    /\ pil_available \in BOOLEAN
    /\ pc = "start"
    /\ part_index = 1
    /\ temp_dir = NoDir
    /\ output_path = NoFile
    /\ three_mf_path = None
    /\ written = {}
    /\ result = None

(* an exception raised inside the try block of _generate_3mf_with_settings *)
Raise3mf ==
    /\ pc' = "finally"
    /\ three_mf_path' = [three_mf_path EXCEPT !.status = "raising"]

GenerateProfileStart ==
    /\ pc = "start"
    /\ IF model_path = "present"
       THEN /\ pc' = "makedirs"
            /\ three_mf_path' = [status |-> "running", cleanup_warning |-> FALSE]
       ELSE pc' = "json_config" /\ UNCHANGED three_mf_path
    /\ UNCHANGED <<slicer_type, model_path, profile_data, pil_available,
                   part_index, temp_dir, output_path, written, result>>
    /\ UNCHANGED <<geometryVars, settingsVars, agentVars, model_hash,
                 storeVars, exportVars>>

MakeTempDir ==
    /\ pc = "makedirs"
    /\ \/ /\ temp_dir' = [exists |-> TRUE, files |-> temp_dir.files]
          /\ pc' = "load"
          /\ UNCHANGED three_mf_path
       \/ Raise3mf /\ UNCHANGED temp_dir
    /\ UNCHANGED <<slicer_type, model_path, profile_data, pil_available,
                   part_index, output_path, written, result>>
    /\ UNCHANGED <<geometryVars, settingsVars, agentVars, model_hash,
                 storeVars, exportVars>>

LoadMesh ==
    /\ pc = "load"
    /\ \/ /\ mesh' \in ArchiveMeshes
          /\ pc' = "model_xml"
          /\ UNCHANGED three_mf_path
       \/ Raise3mf /\ UNCHANGED mesh
    /\ UNCHANGED <<slicer_type, model_path, profile_data, pil_available,
                   part_index, temp_dir, output_path, written, result>>
    /\ UNCHANGED <<build_plate_size, overhang_threshold, model_xml,
                   plate_transform, overhangs>>
    /\ UNCHANGED <<settingsVars, agentVars, model_hash, storeVars, exportVars>>

GenerateModelXml ==
    /\ pc = "model_xml"
    /\ model_xml' = generate_3mf_model_xml(mesh, build_plate_size)
    /\ \/ /\ model_xml'.status = "ok"
          /\ pc' = "parts"
          /\ UNCHANGED three_mf_path
       \/ /\ model_xml'.status = "raised"
          /\ Raise3mf
    /\ UNCHANGED <<slicer_type, model_path, profile_data, pil_available,
                   part_index, temp_dir, output_path, written, result>>
    /\ UNCHANGED <<mesh, build_plate_size, overhang_threshold,
                   plate_transform, overhangs>>
    /\ UNCHANGED <<settingsVars, agentVars, model_hash, storeVars, exportVars>>

WritePart ==
    /\ pc = "parts"
    /\ LET parts == Parts(slicer_type)
           part == parts[part_index]
       IN  \/ /\ part \in ProfileParts => profile_data = "dict"
              /\ temp_dir' = [temp_dir EXCEPT !.files = @ \cup {part}]
              /\ part_index' = part_index + 1
              /\ pc' = IF part_index < Len(parts) THEN "parts"
                       ELSE IF slicer_type = "elegoo_orca" THEN "thumbnails"
                       ELSE "zip_open"
              /\ UNCHANGED three_mf_path
           \/ Raise3mf /\ UNCHANGED <<temp_dir, part_index>>
    /\ UNCHANGED <<slicer_type, model_path, profile_data, pil_available,
                   output_path, written, result>>
    /\ UNCHANGED <<geometryVars, settingsVars, agentVars, model_hash,
                 storeVars, exportVars>>

(* the first n thumbnails are saved; n < 5 when the import or a save raises, *)
(* which the function swallows                                              *)
CreateDummyThumbnails ==
    /\ pc = "thumbnails"
    /\ \E n \in 0..Len(Thumbnails) :
         /\ ~pil_available => n = 0
         /\ temp_dir' = [temp_dir EXCEPT
                            !.files = @ \cup {Thumbnails[i] : i \in 1..n}]
    /\ pc' = "zip_open"
    /\ UNCHANGED <<slicer_type, model_path, profile_data, pil_available,
                   part_index, output_path, three_mf_path, written, result>>
    /\ UNCHANGED <<geometryVars, settingsVars, agentVars, model_hash,
                 storeVars, exportVars>>

(* zipfile.ZipFile(output_path, 'w'): creates or truncates the file *)
ZipOpen ==
    /\ pc = "zip_open"
    /\ \/ /\ output_path' = [exists |-> TRUE, entries |-> {}, closed |-> FALSE]
          /\ pc' = "zip_write"
          /\ UNCHANGED three_mf_path
       \/ Raise3mf /\ UNCHANGED output_path
    /\ UNCHANGED <<slicer_type, model_path, profile_data, pil_available,
                   part_index, temp_dir, written, result>>
    /\ UNCHANGED <<geometryVars, settingsVars, agentVars, model_hash,
                 storeVars, exportVars>>

(* one iteration of the os.walk loop (the walk order is fixed by the file  *)
(* system), or leaving the with block when every file has been added.      *)
(* Leaving it by an exception closes the file and keeps it on disk.        *)
ZipWrite ==
    /\ pc = "zip_write"
    /\ LET pending == temp_dir.files \ output_path.entries
       IN  \/ /\ pending # {}
              /\ output_path' = [output_path EXCEPT
                     !.entries = @ \cup {CHOOSE file \in pending : TRUE}]
              /\ UNCHANGED <<pc, three_mf_path>>
           \/ /\ pending = {}
              /\ output_path' = [output_path EXCEPT !.closed = TRUE]
              /\ pc' = "finally"
              /\ three_mf_path' = [three_mf_path EXCEPT !.status = "returning"]
           \/ Raise3mf /\ UNCHANGED output_path
    /\ UNCHANGED <<slicer_type, model_path, profile_data, pil_available,
                   part_index, temp_dir, written, result>>
    /\ UNCHANGED <<geometryVars, settingsVars, agentVars, model_hash,
                 storeVars, exportVars>>

Ended(status) == IF status = "returning" THEN "returned" ELSE "raised"

(* the mutation: a finally block that leaves the directory in place *)
CleanupWithoutRmtree ==
    /\ pc = "finally"
    /\ three_mf_path' = [three_mf_path EXCEPT !.status = Ended(@)]
    /\ pc' = "except"
    /\ UNCHANGED <<slicer_type, model_path, profile_data, pil_available,
                   part_index, temp_dir, output_path, written, result>>
    /\ UNCHANGED <<geometryVars, settingsVars, agentVars, model_hash,
                 storeVars, exportVars>>

(* the finally block: rmtree removes the directory, or raises and only a   *)
(* warning is printed; then the call ends                                  *)
Cleanup ==
    /\ pc = "finally"
    /\ \/ /\ temp_dir' = NoDir
          /\ three_mf_path' = [three_mf_path EXCEPT !.status = Ended(@)]
       \/ /\ temp_dir.exists
          /\ UNCHANGED temp_dir
          /\ three_mf_path' = [status |-> Ended(three_mf_path.status),
                               cleanup_warning |-> TRUE]
    /\ pc' = "except"
    /\ UNCHANGED <<slicer_type, model_path, profile_data, pil_available,
                   part_index, output_path, written, result>>
    /\ UNCHANGED <<geometryVars, settingsVars, agentVars, model_hash,
                 storeVars, exportVars>>

(* an exception leaving generate_profile; origin names the call it came from *)
RaiseProfile(origin) ==
    /\ pc' = "done"
    /\ result' = [status |-> "raised", keys |-> {}, origin |-> origin]

(* the mutation: the call to _generate_3mf_with_settings without its try *)
Continue3mfUncaught ==
    /\ pc = "except"
    /\ IF three_mf_path.status = "raised"
       THEN RaiseProfile("3mf")
       ELSE pc' = "json_config" /\ UNCHANGED result
    /\ UNCHANGED <<slicer_type, model_path, profile_data, pil_available,
                   part_index, temp_dir, output_path, three_mf_path, written>>
    /\ UNCHANGED <<geometryVars, settingsVars, agentVars, model_hash,
                 storeVars, exportVars>>

(* back in generate_profile: the returned path is kept, an exception is    *)
(* printed and dropped ("Continue without 3MF")                            *)
ContinueAfter3mf ==
    /\ pc = "except"
    /\ pc' = "json_config"
    /\ UNCHANGED <<slicer_type, model_path, profile_data, pil_available,
                   part_index, temp_dir, output_path, three_mf_path,
                   written, result>>
    /\ UNCHANGED <<geometryVars, settingsVars, agentVars, model_hash,
                 storeVars, exportVars>>

(* one of the three generators called after the archive: it writes its     *)
(* file, or raises (always, when it evaluates profile.get on a profile     *)
(* that is not a dict)                                                     *)
WriteOutput(at, name, next, uses_profile) ==
    /\ pc = at
    /\ \/ /\ uses_profile => profile_data = "dict"
          /\ written' = written \cup {name}
          /\ pc' = next
          /\ UNCHANGED result
       \/ RaiseProfile(name) /\ UNCHANGED written
    /\ UNCHANGED <<slicer_type, model_path, profile_data, pil_available,
                   part_index, temp_dir, output_path, three_mf_path>>
    /\ UNCHANGED <<geometryVars, settingsVars, agentVars, model_hash,
                 storeVars, exportVars>>

GenerateJsonConfig == WriteOutput("json_config", "json_config", "json_profile", TRUE)

GenerateJsonProfile == WriteOutput("json_profile", "json_profile", "summary", TRUE)

GenerateSummary == WriteOutput("summary", "summary", "return", FALSE)

(* the mutation: the key is added whenever archive assembly was started *)
GenerateProfileReturnUnchecked ==
    /\ pc = "return"
    /\ pc' = "done"
    /\ result' = [status |-> "ok",
                  keys |-> {"json_config", "json_profile", "summary", "base_name"}
                           \cup (IF three_mf_path.status # "none"
                                 THEN {"3mf_profile"} ELSE {}),
                  origin |-> ""]
    /\ UNCHANGED <<slicer_type, model_path, profile_data, pil_available,
                   part_index, temp_dir, output_path, three_mf_path, written>>
    /\ UNCHANGED <<geometryVars, settingsVars, agentVars, model_hash,
                 storeVars, exportVars>>

GenerateProfileReturn ==
    /\ pc = "return"
    /\ pc' = "done"
    /\ result' = [status |-> "ok",
                  keys |-> {"json_config", "json_profile", "summary", "base_name"}
                           \cup (IF three_mf_path.status = "returned"
                                 THEN {"3mf_profile"} ELSE {}),
                  origin |-> ""]
    /\ UNCHANGED <<slicer_type, model_path, profile_data, pil_available,
                   part_index, temp_dir, output_path, three_mf_path, written>>
    /\ UNCHANGED <<geometryVars, settingsVars, agentVars, model_hash,
                 storeVars, exportVars>>

NextArchive ==
    \/ GenerateProfileStart
    \/ MakeTempDir
    \/ LoadMesh
    \/ GenerateModelXml
    \/ WritePart
    \/ CreateDummyThumbnails
    \/ ZipOpen
    \/ ZipWrite
    \/ Cleanup
    \/ ContinueAfter3mf
    \/ GenerateJsonConfig
    \/ GenerateJsonProfile
    \/ GenerateSummary
    \/ GenerateProfileReturn

SpecArchive == InitArchive /\ [][NextArchive]_vars

----------------------------------------------------------------------------
(* Claims about the archive assembly *)

PartName(arcname) == "/" \o arcname

ArchiveReturned == three_mf_path.status = "returned"

ArchiveRaised == three_mf_path.status = "raised"

ThumbnailParts == {Thumbnails[i] : i \in 1..Len(Thumbnails)}

(* C12: an archive returned for elegoo_orca holds the five preview images. *)
C12_ThumbnailsInArchive ==
    (ArchiveReturned /\ slicer_type = "elegoo_orca")
        => ThumbnailParts \subseteq output_path.entries

(* C13: in an archive returned for either variant, the root relationship   *)
(* part exists (and the model relationship part for elegoo_orca), and      *)
(* every relationship target and every content-type override part is an    *)
(* entry of the archive.                                                   *)
C13_ReferencedPartsExist ==
    ArchiveReturned =>
        /\ output_path.closed
        /\ {"_rels/.rels", "[Content_Types].xml"} \subseteq output_path.entries
        /\ slicer_type = "elegoo_orca"
               => "3D/_rels/3dmodel.model.rels" \in output_path.entries
        /\ \A part \in output_path.entries :
               \A target \in RelationshipTargets(part) \cup OverrideParts(part) :
                   \E entry \in output_path.entries : PartName(entry) = target

C13_Witness ==
    /\ ArchiveReturned
    /\ slicer_type = "elegoo_orca"
    /\ "3D/Objects/Object_1_1.model" \in output_path.entries
    /\ ~temp_dir.exists

(* C14: when archive assembly has raised, no file exists at the target     *)
(* path.                                                                   *)
C14_NoFileAfterFailure == ArchiveRaised => ~output_path.exists

CoreOutputs == {"json_config", "json_profile", "summary"}

----------------------------------------------------------------------------
(* AI response handling: GeminiAgent.analyze_features,                     *)
(* _parse_analysis_response and _generate_fallback_analysis.               *)
(*                                                                         *)
(* A response text is a sequence of tokens: prose, the two code fences     *)
(* (three backquotes, with or without "json"), and one token for each      *)
(* kind of JSON document.                                                  *)

JsonDocuments == {"{...}", "[...]", "42"}

Fences == {"<fence json>", "<fence>"}

Tokens == {"prose"} \cup Fences \cup JsonDocuments

MaxTokens == 3

ResponseTexts == UNION {[1..n -> Tokens] : n \in 1..MaxTokens}

(* the features the fallback reads: the overhang group is missing, or      *)
(* holds each of its two flags or not                                      *)
OverhangGroups ==
    {[k \in keys |-> flags[k]] :
        keys \in SUBSET {"needs_supports", "recommend_tree_support"},
        flags \in [{"needs_supports", "recommend_tree_support"} -> BOOLEAN]}

FeatureDicts ==
    {[model_hash |-> "d41d8"]}
        \cup {[model_hash |-> "d41d8", overhangs |-> o] : o \in OverhangGroups}

(* text[find(fence) + len(fence) : rfind(fence)]; the characters of the    *)
(* plain fence also occur at the start of the json fence                   *)
ExtractJson(text) ==
    LET at(S) == {i \in 1..Len(text) : text[i] \in S}
        first(S) == CHOOSE i \in at(S) : \A j \in at(S) : i <= j
        last(S) == CHOOSE i \in at(S) : \A j \in at(S) : j <= i
    IN  IF at({"<fence json>"}) # {}
        THEN SubSeq(text, first({"<fence json>"}) + 1, last(Fences) - 1)
        ELSE IF at(Fences) # {}
        THEN SubSeq(text, first(Fences) + 1, last(Fences) - 1)
        ELSE text

(* json.loads: the kind of the document, or "JSONDecodeError" *)
json_loads(text) ==
    IF Len(text) = 1 /\ text[1] \in JsonDocuments THEN text[1] ELSE "JSONDecodeError"

(* the mutation: the tree flag read from needs_supports *)
generate_fallback_analysis_one_flag(f) ==
    LET overhangs_group == Get(f, "overhangs", << >>)
        needs == Get(overhangs_group, "needs_supports", FALSE)
    IN  [status |-> "returned",
         source |-> "fallback",
         model_hash |-> Get(f, "model_hash", ""),
         profile |-> [support_material |-> needs,
                      support_type |-> IF needs THEN "tree_auto" ELSE "normal",
                      support_style |-> IF needs THEN "tree" ELSE "default"]]

generate_fallback_analysis(f) ==
    LET overhangs_group == Get(f, "overhangs", << >>)
        tree == Get(overhangs_group, "recommend_tree_support", FALSE)
    IN  [status |-> "returned",
         source |-> "fallback",
         model_hash |-> Get(f, "model_hash", ""),
         profile |-> [support_material |-> Get(overhangs_group, "needs_supports", FALSE),
                      support_type |-> IF tree THEN "tree_auto" ELSE "normal",
                      support_style |-> IF tree THEN "tree" ELSE "default"]]

(* item assignment on the parsed document raises TypeError unless it is a  *)
(* dict; only json.JSONDecodeError is caught                               *)
parse_analysis_response(text, f) ==
    LET document == json_loads(ExtractJson(text))
    IN  IF document = "JSONDecodeError" THEN generate_fallback_analysis(f)
        ELSE IF document = "{...}"
        THEN [status |-> "returned", source |-> "gemini_ai",
              model_hash |-> Get(f, "model_hash", "")]
        ELSE [status |-> "raised", error |-> "TypeError"]

(* every exception of the call or of the parsing becomes a RuntimeError *)
analyze_features(r, f) ==
    LET parsed == IF r.status = "error" THEN r ELSE parse_analysis_response(r.text, f)
    IN  IF parsed.status = "returned" THEN parsed
        ELSE [status |-> "raised", error |-> "RuntimeError"]

InitAgent ==
    /\ GeometryIdle
    /\ SettingsIdle
    /\ ArchiveIdle
    /\ StoreIdle
    /\ ExportIdle
    /\ features \in FeatureDicts
    /\ model_hash = None
    /\ response \in {[status |-> "error"]}
                       \cup {[status |-> "ok", text |-> t] : t \in ResponseTexts}
    /\ analysis = None

AnalyzeFeatures ==
    /\ analysis.status = "none"
    /\ analysis' = analyze_features(response, features)
    /\ UNCHANGED <<features, response>>
    /\ UNCHANGED <<geometryVars, settingsVars, archiveVars, model_hash,
                   storeVars, exportVars>>

SpecAgent == InitAgent /\ [][AnalyzeFeatures]_vars

----------------------------------------------------------------------------
(* Claims about the AI response handling *)

AnalysisDone == analysis.status \in {"returned", "raised"}

(* the response text does not hold a JSON object *)
NotASettingsRecord ==
    /\ response.status = "ok"
    /\ json_loads(ExtractJson(response.text)) # "{...}"

(* C17: whenever the response text cannot be parsed into a settings record *)
(* (it is not valid JSON, or it is valid JSON but not an object),          *)
(* analyze_features returns the fallback record and no error propagates.   *)
C17_FallbackOnUnparseable ==
    (AnalysisDone /\ NotASettingsRecord) =>
        /\ analysis.status = "returned"
        /\ analysis.source = "fallback"

FlagSet(flag) ==
    /\ "overhangs" \in DOMAIN features
    /\ flag \in DOMAIN features["overhangs"]
    /\ features["overhangs"][flag]

IsFallback == analysis.status = "returned" /\ analysis.source = "fallback"

(* C18: in the fallback record support is enabled exactly when the         *)
(* features say needs_supports, and the support topology is tree           *)
(* (support_type "tree_auto", support_style "tree") exactly when they say  *)
(* recommend_tree_support, otherwise normal ("normal", "default"); with no *)
(* overhang group support is disabled and the topology is normal.          *)
C18_FallbackSupportFlags ==
    IsFallback =>
        /\ analysis.profile.support_material <=> FlagSet("needs_supports")
        /\ analysis.profile.support_type =
               (IF FlagSet("recommend_tree_support") THEN "tree_auto" ELSE "normal")
        /\ analysis.profile.support_style =
               (IF FlagSet("recommend_tree_support") THEN "tree" ELSE "default")
        /\ "overhangs" \notin DOMAIN features =>
               /\ ~analysis.profile.support_material
               /\ analysis.profile.support_type = "normal"

(* a fenced text without a JSON document falls back, with supports enabled *)
(* and the normal topology                                                 *)
C18_Witness ==
    /\ IsFallback
    /\ response.text = <<"<fence json>", "prose", "<fence>">>
    /\ FlagSet("needs_supports")
    /\ "recommend_tree_support" \in DOMAIN features["overhangs"]
    /\ analysis.profile.support_material
    /\ analysis.profile.support_style = "default"

----------------------------------------------------------------------------
(* Model fingerprint: FeatureExtractor._compute_model_hash.                *)
(*                                                                         *)
(* Here a mesh is its vertex array (rows of three float coordinates) and   *)
(* its face array (rows of three integer vertex indices, from 0).          *)

Rows(count, values) == [1..count -> [1..3 -> values]]

(* one or two vertices with coordinates 0 or 1, and no face or one face    *)
(* over the indices of the vertices                                        *)
HashMeshes ==
    UNION {{[vertices |-> v, faces |-> f] :
               v \in Rows(nv, {0, 1}), f \in Rows(nf, 0..(nv - 1))} :
           nv \in {1, 2}, nf \in {0, 1}}

(* array.flatten(): the rows one after the other *)
Flatten(rows) == [i \in 1..(3 * Len(rows)) |-> rows[((i - 1) \div 3) + 1][((i - 1) % 3) + 1]]

(* np.concatenate of the float vertex array and the integer face array:    *)
(* one float64 array, every index converted to the float of that value     *)
Concatenate(m) ==
    [i \in 1..Len(Flatten(m.vertices)) |-> Fl(Flatten(m.vertices)[i])]
        \o [i \in 1..Len(Flatten(m.faces)) |-> Fl(Flatten(m.faces)[i])]

(* md5(data.tobytes()).hexdigest(), the digest taken as injective: the     *)
(* fingerprint stands for the sequence of float64 values hashed            *)
compute_model_hash(m) == [status |-> "ok", data |-> Concatenate(m)]

InitHash ==
    /\ InitWith({<<m, DefaultPlate, DefaultThreshold>> : m \in HashMeshes})

ComputeModelHash ==
    /\ model_hash.status = "none"
    /\ model_hash' = compute_model_hash(mesh)
    /\ UNCHANGED <<geometryVars, settingsVars, archiveVars, agentVars,
                   storeVars, exportVars>>

SpecHash == InitHash /\ [][ComputeModelHash]_vars

----------------------------------------------------------------------------
(* Claims about the fingerprint *)

(* C19: a mesh with the same vertices and faces has the same fingerprint,  *)
(* and a mesh that differs in a vertex coordinate, a face index or the     *)
(* number of vertices or faces has a different one.                        *)
C19_FingerprintInjective ==
    model_hash.status = "ok" =>
        \A other \in HashMeshes :
            (other = mesh) <=> (compute_model_hash(other) = model_hash)

----------------------------------------------------------------------------
(* Feature extraction: FeatureExtractor.extract_features with              *)
(* _analyze_complexity, _calculate_detail_level and _analyze_surface.      *)
(*                                                                         *)
(* Here a mesh has, next to its bounds and face normals, the array         *)
(* area_faces of its face areas; mesh.area is their sum.                   *)

(* a / b on numpy float64 scalars *)
FQuot(a, b) ==
    IF a.k = "nan" \/ b.k = "nan" THEN NaN
    ELSE IF b.k # "fin" THEN (IF a.k = "fin" THEN Fl(0) ELSE NaN)
    ELSE IF b.n = 0 THEN (IF FSign(a) = 0 THEN NaN ELSE InfOf(FSign(a)))
    ELSE IF a.k # "fin" THEN InfOf(FSign(a) * Sign(b.n))
    ELSE FMul(a, Rat(b.d, b.n))

(* the square root of a float that is nan or the square of a rational *)
FSqrt(a) ==
    IF a.k # "fin" THEN a
    ELSE Rat(CHOOSE i \in 0..a.n : i * i = a.n, CHOOSE i \in 0..a.d : i * i = a.d)

RECURSIVE FSum(_)
FSum(values) == IF values = << >> THEN Fl(0) ELSE FAdd(Head(values), FSum(Tail(values)))

(* np.mean: nan (with a warning) on an empty array *)
Mean(values) == FQuot(FSum(values), Fl(Len(values)))

(* np.std *)
Std(values) ==
    LET mean == Mean(values)
        squares == [i \in 1..Len(values) |->
                       FMul(FSub(values[i], mean), FSub(values[i], mean))]
    IN  FSqrt(Mean(squares))

FaceAreas == {Fl(0), Rat(1, 100), Rat(1, 40), Fl(1)}

(* meshes of at most two faces: one area and one normal for each face;     *)
(* the bounding box is the 10mm cube or a 1mm thick plate                  *)
FeatureMeshes ==
    {[bounds |-> b, face_normals |-> n, area_faces |-> a] :
        b \in {CubeBounds, [min |-> <<0, 0, 0>>, max |-> <<1, 10, 10>>]},
        a \in UNION {[1..c -> FaceAreas] : c \in 0..2},
        n \in {h \in FaceNormalSets : TotalFaces(h) <= 2}}

calculate_detail_level(m) ==
    LET area == FSum(m.area_faces)
        face_density == IF FGt(area, Fl(0)) THEN FQuot(Fl(Len(m.area_faces)), area)
                        ELSE Fl(0)
    IN  IF FGt(face_density, Fl(100)) THEN "very_high"
        ELSE IF FGt(face_density, Fl(50)) THEN "high"
        ELSE IF FGt(face_density, Fl(20)) THEN "medium"
        ELSE "low"

analyze_complexity(m) ==
    LET area == FSum(m.area_faces)
    IN  [face_density |-> IF FGt(area, Fl(0)) THEN FQuot(Fl(Len(m.area_faces)), area)
                          ELSE Fl(0),
         detail_level |-> calculate_detail_level(m)]

(* zero_division: a division with divisor 0 was evaluated (numpy reports   *)
(* it as a RuntimeWarning and yields nan or an infinity)                   *)
analyze_surface(m) ==
    LET face_areas == m.area_faces
        mean_face_area == Mean(face_areas)
        std_face_area == Std(face_areas)
    IN  [mean_face_area |-> mean_face_area,
         surface_variation |-> IF FGt(mean_face_area, Fl(0))
                               THEN FQuot(std_face_area, mean_face_area)
                               ELSE Fl(0),
         surface_type |-> IF FLt(FQuot(std_face_area, mean_face_area), Rat(1, 2))
                          THEN "smooth" ELSE "detailed",
         zero_division |-> face_areas = << >> \/ mean_face_area = Fl(0)]

WallCutoff == 10

(* _analyze_walls: dims are the extents of the bounding box; the estimate  *)
(* is avg_dimension * 0.01                                                 *)
analyze_walls(m) ==
    LET dims == <<Fl(Width(m.bounds)), Fl(Depth(m.bounds)), Fl(Height(m.bounds))>>
        avg_dimension == Mean(dims)
    IN  [estimated_min_wall_thickness |-> FMul(avg_dimension, Rat(1, 100)),
         has_thin_walls |-> FLt(avg_dimension, Fl(WallCutoff)),
         wall_type |-> IF FLt(avg_dimension, Fl(WallCutoff)) THEN "thin" ELSE "thick"]

(* the analyses run in this order; an exception of one ends the call *)
extract_features(m, threshold) ==
    LET found == detect_overhangs(m, threshold)
    IN  IF found.status = "raised"
        THEN [status |-> "raised", complexity |-> analyze_complexity(m)]
        ELSE [status |-> "ok",
              complexity |-> analyze_complexity(m),
              overhangs |-> found,
              wall_analysis |-> analyze_walls(m),
              surface |-> analyze_surface(m)]

InitFeatures ==
    /\ InitWith({<<m, DefaultPlate, t>> :
                    m \in {f \in FeatureMeshes :
                              TotalFaces(f.face_normals) = Len(f.area_faces)},
                    t \in Thresholds})

ExtractFeatures ==
    /\ features.status = "none"
    /\ features' = extract_features(mesh, overhang_threshold)
    /\ UNCHANGED <<geometryVars, settingsVars, archiveVars, response, analysis,
                   model_hash, storeVars, exportVars>>

SpecFeatures == InitFeatures /\ [][ExtractFeatures]_vars

----------------------------------------------------------------------------
(* Claims about the feature extraction *)

NoFaces == mesh.area_faces = << >>

ZeroArea == FSum(mesh.area_faces) = Fl(0)

(* C20: for a degenerate mesh (no faces, or total area 0, or mean face     *)
(* area 0) extract_features completes without raising and evaluates no     *)
(* division by zero; each guarded ratio whose guard trips is 0, and the    *)
(* classifications are those of the clamped value 0: detail level "low",   *)
(* surface type "smooth", no overhangs and no supports.                    *)
C20_DegenerateMeshClamped ==
    (features.status # "none" /\ (NoFaces \/ ZeroArea)) =>
        /\ features.status = "ok"
        /\ ~features.surface.zero_division
        /\ features.complexity.face_density = Fl(0)
        /\ features.complexity.detail_level = "low"
        /\ features.surface.surface_variation = Fl(0)
        /\ features.surface.surface_type = "smooth"
        /\ NoFaces =>
               /\ features.overhangs.overhang_percentage = Fl(0)
               /\ features.overhangs.severe_overhang_percentage = Fl(0)
               /\ features.overhangs.extreme_overhang_percentage = Fl(0)
               /\ ~features.overhangs.needs_supports
               /\ features.overhangs.support_complexity = "low"

(* C26: the wall classification is "thin" exactly when the wall estimate   *)
(* (a hundredth of the average bounding-box dimension) is below the 10mm   *)
(* cutoff and "thick" otherwise, and has_thin_walls agrees with wall_type. *)
C26_WallTypeFollowsEstimate ==
    features.status = "ok" =>
        LET walls == features.wall_analysis
        IN  /\ walls.wall_type \in {"thin", "thick"}
            /\ walls.wall_type = "thin"
                   <=> FLt(walls.estimated_min_wall_thickness, Fl(WallCutoff))
            /\ walls.has_thin_walls <=> walls.wall_type = "thin"

----------------------------------------------------------------------------
(* Claims about the archive and the mesh *)

NoTriangles == mesh # None /\ TotalFaces(mesh.face_normals) = 0

(* C23: when the loaded mesh has no triangles, archive assembly fails with *)
(* an exception from the generation of the model XML and produces no       *)
(* archive: no file is created at the output path and no path is returned. *)
C23_NoTrianglesNoArchive ==
    NoTriangles =>
        /\ ~output_path.exists
        /\ three_mf_path.status # "returned"
        /\ pc \notin {"load", "model_xml"} =>
               /\ model_xml.status = "raised"
               /\ three_mf_path.status \in {"raising", "raised"}

C23_Witness ==
    /\ NoTriangles
    /\ model_xml.status = "raised"
    /\ three_mf_path.status = "raised"
    /\ pc = "done"

(* C30: the result of generate_profile holds the key "3mf_profile" exactly *)
(* when a model path was given, the file existed and archive assembly      *)
(* ended without an exception; and when the key is present a closed        *)
(* archive holding every part of the variant exists at the output path.    *)
C30_ArchiveKeyIffArchive ==
    result.status = "ok" =>
        /\ "3mf_profile" \in result.keys
               <=> (model_path = "present" /\ three_mf_path.status = "returned")
        /\ "3mf_profile" \in result.keys =>
               /\ output_path.exists
               /\ output_path.closed
               /\ Range(Parts(slicer_type)) \subseteq output_path.entries

C30_Witness ==
    /\ result.status = "ok"
    /\ "3mf_profile" \in result.keys
    /\ output_path.closed

----------------------------------------------------------------------------
(* Overlapping exports: two generate_profile calls on one output directory *)
(* (profile_generator.py).  Each file carries the call that wrote it last. *)
(* The steps that touch no file (mesh loading, XML generation) are left    *)
(* out, and every write to an existing directory succeeds.                 *)

Calls == {1, 2}

NameLimit == 50

(* the name without its extension, the invalid characters replaced, cut    *)
(* to NameLimit characters                                                 *)
sanitize_filename(name) ==
    LET invalid_chars == {"<", ">", ":", "\"", "/", "\\", "|", "?", "*"}
        clean == [i \in DOMAIN name.stem |->
                     IF name.stem[i] \in invalid_chars THEN "_" ELSE name.stem[i]]
    IN  SubSeq(clean, 1, IF Len(clean) < NameLimit THEN Len(clean) ELSE NameLimit)

(* f"{safe_name}_{timestamp}", the timestamp read to the second *)
base_filename(name, second) ==
    [safe_name |-> sanitize_filename(name), timestamp |-> second]

BaseOf(c) == base_filename(calls[c].model_name, calls[c].second)

(* open(path, 'w'): the file is created or overwritten *)
WriteFiles(files, names, c) ==
    {f \in files : f.name \notin names} \cup {[name |-> n, writer |-> c] : n \in names}

InitExport ==
    /\ GeometryIdle
    /\ SettingsIdle
    /\ ArchiveIdle
    /\ AgentIdle
    /\ StoreIdle
    /\ calls \in [Calls ->
                    [model_name : {[stem |-> <<"c", "u", "b", "e">>, ext |-> ".stl"],
                                  [stem |-> <<"c", "u", "b", "e">>, ext |-> ".obj"],
                                  [stem |-> <<"g", ":", "1">>, ext |-> ".stl"]},
                     second : {0, 1},
                     slicer_type : {"elegoo_orca", "standard"},
                     pc : {"start"}, part_index : {1},
                     three_mf_path : {None}, result : {None}]]
    /\ LET bases == {BaseOf(c) : c \in Calls}
       IN  fs = [temp |-> [b \in bases |-> NoDir],
                 archive |-> [b \in bases |-> [exists |-> FALSE, entries |-> {}]],
                 outputs |-> [b \in bases |-> {}]]

(* os.makedirs(temp_dir, exist_ok=True) *)
ExportMakedirs(c) ==
    /\ calls[c].pc = "start"
    /\ fs' = [fs EXCEPT !.temp[BaseOf(c)].exists = TRUE]
    /\ calls' = [calls EXCEPT ![c].pc = "parts"]
    /\ UNCHANGED <<geometryVars, settingsVars, archiveVars, agentVars, model_hash,
                   storeVars>>

(* one part written into temp_dir; when the directory is gone the write    *)
(* raises unless a makedirs of a subdirectory has created it again         *)
ExportWritePart(c) ==
    /\ calls[c].pc = "parts"
    /\ LET parts == Parts(calls[c].slicer_type)
           i == calls[c].part_index
           written_to(dir) == [exists |-> TRUE,
                               files |-> WriteFiles(dir.files, {parts[i]}, c)]
           after == IF i < Len(parts) THEN "parts"
                    ELSE IF calls[c].slicer_type = "elegoo_orca" THEN "thumbnails"
                    ELSE "zip"
       IN  \/ /\ fs' = [fs EXCEPT !.temp[BaseOf(c)] = written_to(@)]
              /\ calls' = [calls EXCEPT ![c].pc = after, ![c].part_index = i + 1]
           \/ /\ ~fs.temp[BaseOf(c)].exists
              /\ calls' = [calls EXCEPT ![c].pc = "finally",
                                        ![c].three_mf_path = [status |-> "raised"]]
              /\ UNCHANGED fs
    /\ UNCHANGED <<geometryVars, settingsVars, archiveVars, agentVars, model_hash,
                   storeVars>>

(* _create_dummy_thumbnails: a failed save is printed and dropped *)
ExportThumbnails(c) ==
    /\ calls[c].pc = "thumbnails"
    /\ fs' = IF fs.temp[BaseOf(c)].exists
             THEN [fs EXCEPT !.temp[BaseOf(c)].files = WriteFiles(@, Range(Thumbnails), c)]
             ELSE fs
    /\ calls' = [calls EXCEPT ![c].pc = "zip"]
    /\ UNCHANGED <<geometryVars, settingsVars, archiveVars, agentVars, model_hash,
                   storeVars>>

(* ZipFile(output_path, 'w') over os.walk(temp_dir): the archive is        *)
(* created or truncated and receives every file found in the directory     *)
ExportZip(c) ==
    /\ calls[c].pc = "zip"
    /\ fs' = [fs EXCEPT !.archive[BaseOf(c)] =
                            [exists |-> TRUE, entries |-> fs.temp[BaseOf(c)].files]]
    /\ calls' = [calls EXCEPT ![c].pc = "finally",
                              ![c].three_mf_path = [status |-> "returned"]]
    /\ UNCHANGED <<geometryVars, settingsVars, archiveVars, agentVars, model_hash,
                   storeVars>>

(* the finally block: shutil.rmtree(temp_dir) when it exists *)
ExportCleanup(c) ==
    /\ calls[c].pc = "finally"
    /\ fs' = [fs EXCEPT !.temp[BaseOf(c)] = NoDir]
    /\ calls' = [calls EXCEPT ![c].pc = "outputs"]
    /\ UNCHANGED <<geometryVars, settingsVars, archiveVars, agentVars, model_hash,
                   storeVars>>

(* _generate_json_config, _generate_json_profile, _generate_summary and    *)
(* the result of generate_profile                                          *)
ExportOutputs(c) ==
    /\ calls[c].pc = "outputs"
    /\ fs' = [fs EXCEPT !.outputs[BaseOf(c)] = WriteFiles(@, {"_config.json", ".json", "_summary.txt"}, c)]
    /\ calls' = [calls EXCEPT ![c].pc = "done",
                              ![c].result = [status |-> "returned"]]
    /\ UNCHANGED <<geometryVars, settingsVars, archiveVars, agentVars, model_hash,
                   storeVars>>

SpecExport ==
    InitExport /\ [][\E c \in Calls : \/ ExportMakedirs(c)
                                      \/ ExportWritePart(c)
                                      \/ ExportThumbnails(c)
                                      \/ ExportZip(c)
                                      \/ ExportCleanup(c)
                                      \/ ExportOutputs(c)]_vars

----------------------------------------------------------------------------
(* Claims about overlapping exports *)

Others(files, c) == {f \in files : f.writer # c}

(* C22: two overlapping generate_profile calls share no mutable state:     *)
(* while a call assembles its archive its temporary directory exists and   *)
(* holds only files it wrote; the archive it returns holds all its parts   *)
(* and only files it wrote; and the output files of a completed call are   *)
(* its own.                                                                *)
C22_CallsShareNoFiles ==
    \A c \in Calls :
        /\ calls[c].pc \in {"parts", "thumbnails", "zip"} =>
               /\ fs.temp[BaseOf(c)].exists
               /\ Others(fs.temp[BaseOf(c)].files, c) = {}
        /\ (calls[c].three_mf_path.status = "returned" /\ calls[c].pc # "finally") =>
               /\ fs.archive[BaseOf(c)].exists
               /\ Others(fs.archive[BaseOf(c)].entries, c) = {}
               /\ Range(Parts(calls[c].slicer_type))
                      \subseteq {f.name : f \in fs.archive[BaseOf(c)].entries}
        /\ calls[c].pc = "done" => Others(fs.outputs[BaseOf(c)], c) = {}

----------------------------------------------------------------------------
(* Knowledge base: knowledge_base.py, and the search step of analyze_model *)
(* in ai_agent.py                                                          *)

DigestLen == 32
IdHashLen == 8
SearchLimit == 3
MaxCases == 3
MaxNow == 1

(* md5 hexdigests, DigestLen hexadecimal characters each: two that differ  *)
(* in the last character only, and a third                                 *)
ModelHashes ==
    {[i \in 1..DigestLen |-> IF i = DigestLen THEN last ELSE c] :
        <<c, last>> \in {<<"a", "a">>, <<"a", "b">>, <<"c", "c">>}}

(* f"case_{now:%Y%m%d_%H%M%S}_{model_hash[:8]}": the two interpolated      *)
(* fields, the clock read to the second and the first characters of the    *)
(* hash                                                                    *)
case_id(t, h) ==
    [second |-> t,
     hash8 |-> SubSeq(h, 1, IF Len(h) < IdHashLen THEN Len(h) ELSE IdHashLen)]

(* collection.query(n_results = limit): the stored ids nearest to the      *)
(* search text, nearest first; the distance is not modelled, so every      *)
(* order of every choice of ids is a possible answer                       *)
Rankings(ids, limit) ==
    LET n == IF Cardinality(ids) < limit THEN Cardinality(ids) ELSE limit
    IN  {r \in [1..n -> ids] : \A i, j \in 1..n : r[i] = r[j] => i = j}

load_cases_by_ids(ids, loaded) ==
    IF loaded.status = "raised" THEN << >>
    ELSE SelectSeq(loaded.cases, LAMBDA case : case.id \in Range(ids))

find_similar_cases_uncaught(res, loaded) ==
    IF res.status = "raised" \/ (Len(res.ids) > 0 /\ loaded.status = "raised")
    THEN [status |-> "raised"]
    ELSE [status |-> "returned",
          cases |-> IF Len(res.ids) > 0 THEN load_cases_by_ids(res.ids, loaded)
                    ELSE << >>]

find_similar_cases(res, loaded) ==
    IF res.status = "raised" THEN [status |-> "returned", cases |-> << >>]
    ELSE IF Len(res.ids) > 0
         THEN [status |-> "returned", cases |-> load_cases_by_ids(res.ids, loaded)]
         ELSE [status |-> "returned", cases |-> << >>]

(* a fresh installation: an empty collection and a cases file holding [] *)
InitStore ==
    /\ GeometryIdle
    /\ SettingsIdle
    /\ ArchiveIdle
    /\ AgentIdle
    /\ ExportIdle
    /\ StoreIdle

(* add_case at clock reading t (datetime.now(), never earlier than the     *)
(* last reading): the collection keeps one entry per id; a failure of      *)
(* either store is printed and the id is returned all the same             *)
AddCase ==
    /\ Len(case_ids) < MaxCases
    /\ \E t \in now..MaxNow, h \in ModelHashes, added \in BOOLEAN, saved \in BOOLEAN :
         LET id == case_id(t, h)
         IN  /\ now' = t
             /\ collection' = IF added THEN collection \cup {id} ELSE collection
             /\ cases_file' = IF saved
                              THEN Append(cases_file, [id |-> id, model_hash |-> h])
                              ELSE cases_file
             /\ case_ids' = Append(case_ids, id)
    /\ UNCHANGED <<results, all_cases, similar_cases, prompt_cases>>
    /\ UNCHANGED <<geometryVars, settingsVars, archiveVars, agentVars, model_hash,
                   exportVars>>

(* step 2 of analyze_model: the query and the read of the cases file each  *)
(* succeed or raise; the file is read only for a non-empty answer          *)
FindSimilarCases ==
    /\ similar_cases.status = "none"
    /\ \E res \in {[status |-> "raised", ids |-> << >>]}
                     \cup {[status |-> "ok", ids |-> r] :
                              r \in Rankings(collection, SearchLimit)},
          loaded \in {[status |-> "raised"],
                      [status |-> "ok", cases |-> cases_file]} :
         /\ results' = res
         /\ all_cases' = IF Len(res.ids) > 0 THEN loaded ELSE None
         /\ similar_cases' = find_similar_cases(res, all_cases')
    /\ UNCHANGED <<now, cases_file, collection, case_ids, prompt_cases>>
    /\ UNCHANGED <<geometryVars, settingsVars, archiveVars, agentVars, model_hash,
                   exportVars>>

(* step 3 of analyze_model: analyze_features(features, similar_cases) *)
AnalyzeWithGemini ==
    /\ similar_cases.status = "returned"
    /\ prompt_cases.status = "none"
    /\ prompt_cases' = [status |-> "given", cases |-> similar_cases.cases]
    /\ UNCHANGED <<now, cases_file, collection, case_ids,
                   results, all_cases, similar_cases>>
    /\ UNCHANGED <<geometryVars, settingsVars, archiveVars, agentVars, model_hash,
                   exportVars>>

SpecStore ==
    InitStore /\ [][AddCase \/ FindSimilarCases \/ AnalyzeWithGemini]_vars

----------------------------------------------------------------------------
(* Claims about the knowledge base *)

SearchFailed == results.status = "raised" \/ all_cases.status = "raised"

(* C21: when the similarity query or the loading of the stored cases       *)
(* raises, find_similar_cases returns an empty list and raises nothing,    *)
(* and analyze_model hands an empty list of similar cases to the AI step.  *)
C21_SearchErrorsGiveEmptyList ==
    (similar_cases.status # "none" /\ SearchFailed) =>
        /\ similar_cases = [status |-> "returned", cases |-> << >>]
        /\ prompt_cases.status # "none" =>
               prompt_cases = [status |-> "given", cases |-> << >>]

C21_Witness ==
    /\ SearchFailed
    /\ Len(cases_file) > 0
    /\ prompt_cases = [status |-> "given", cases |-> << >>]

Ids(cases) == [i \in DOMAIN cases |-> cases[i].id]

DistinctIds(cases) ==
    \A i, j \in DOMAIN cases : cases[i].id = cases[j].id => i = j

(* C25: the cases find_similar_cases returns appear in the rank order of   *)
(* the similarity query, whatever the order in which they were added       *)
(* (stated for a cases file whose ids are pairwise distinct).              *)
C25_ReturnedInRankOrder ==
    (/\ similar_cases.status = "returned"
     /\ results.status = "ok"
     /\ all_cases.status = "ok"
     /\ DistinctIds(all_cases.cases)) =>
        Ids(similar_cases.cases)
            = SelectSeq(results.ids,
                        LAMBDA id : id \in Range(Ids(all_cases.cases)))

(* C29: after any sequence of add_case calls (none of whose writes failed) *)
(* the records of the cases file have pairwise distinct ids and every id   *)
(* add_case returned identifies exactly one stored record.                 *)
C29_CaseIdsUnique ==
    Len(cases_file) = Len(case_ids) =>
        /\ DistinctIds(cases_file)
        /\ \A k \in DOMAIN case_ids :
               Cardinality({i \in DOMAIN cases_file :
                               cases_file[i].id = case_ids[k]}) = 1

====
